---- MODULE Spec2Model ----
(***************************************************************************)
(* A model of DS.Store (packages/ember-data/lib/system/store.js): the      *)
(* identity map (typeMaps), record lookup and fetch, the pending-save      *)
(* queue and its flush, the adapter acknowledgement entry points, batched   *)
(* fetches and the find-all bookkeeping.                                   *)
(*                                                                         *)
(* JavaScript values that reach the store as identifiers are modelled as   *)
(* tagged values [k, s]: k is the JavaScript type and s the string the     *)
(* value converts to (String(v)), which is also the property key the value *)
(* selects in idToRecord[v].  A record object is its allocation index in   *)
(* heap; 0 stands for "no object" (undefined).                             *)
(*                                                                         *)
(* Ember.assert is modelled as throwing: the handler stops at the failed   *)
(* assertion and whatever it wrote before stays written.                   *)
(***************************************************************************)
EXTENDS Integers, Sequences, FiniteSets, TLC

\* ------------------------------------------------------------------ bounds
MaxRecords == 3     \* record objects ever created by type._create
MaxSaves == 3       \* scheduleSave calls
MaxFinds == 2       \* promises handed out by findById
MaxFindAlls == 2    \* adapter findAll calls outstanding per type
MaxAckedSaves == 1  \* scheduleSave calls where only the identity map is studied
MaxSavedRecords == 2  \* record objects where the pending-save queue is studied
MaxIdRecords == 2   \* record objects where the kinds of id values are studied
MaxBulkSaves == 2    \* saves scheduled where didSaveRecords is studied
MaxChanges == 2      \* relationship changes registered
MaxLedgerRecords == 2  \* record objects where relationship changes are studied
MaxStoreRecords == 2   \* record objects where two stores are studied
MaxManyRecords == 2  \* record objects where findMany is studied

\* ---------------------------------------------------------- JavaScript values
Null == [k |-> "null", s |-> "null"]
Undefined == [k |-> "undefined", s |-> "undefined"]
Str(x) == [k |-> "string", s |-> x]
Num(x) == [k |-> "number", s |-> x]

\* the identifier values the environment passes in
RawIds == {Null, Str(""), Str("1")}
\* the identifiers a backend payload carries
DataIds == {Null, Str(""), Str("1")}

\* the JavaScript values a caller may pass where an id is expected
JsIds == {Null, Undefined, Str(""), Str("0"), Str("1"), Num("0"), Num("1")}

\* the model classes
Types == {"post", "comment"}

\* the strings that name a model class in the container
TypeKeys == {"model:post", "model:comment"}

\* what a caller may pass where a type is expected: a class or its key
TypeRefs == Types \cup TypeKeys

\* modelFor(key): a key is looked up in the container, a class is returned as is
modelFor(key) ==
  CASE key = "model:post" -> "post"
    [] key = "model:comment" -> "comment"
    [] OTHER -> key

\* String(v): the property key v selects
PropKey(v) == v.s

\* the names of relationships on the child's and on the parent's side, and the
\* strings childKey + parentKey makes of them
ChildKeys == {"a", "ab"}
ParentKeys == {"c", "bc"}
RelationKeys == {ck \o pk : <<ck, pk>> \in ChildKeys \X ParentKeys}
ChangeTypes == {"add", "remove"}
Keys == {PropKey(v) : v \in RawIds \cup DataIds \cup JsIds \cup {Null, Undefined}}

\* ToBoolean(v) for the values above
Truthy(v) == \/ v.k = "string" /\ v.s # ""
             \/ v.k = "number" /\ v.s # "0"

isNone(v) == v.k \in {"null", "undefined"}

\* as coerceId, with every falsy value taken for a missing id
coerceIdFalsy(id) == IF ~Truthy(id) THEN Null ELSE Str(id.s)

\* var coerceId = function(id) { return id == null ? null : id+''; }
coerceId(id) == IF id.k \in {"null", "undefined"} THEN Null ELSE Str(id.s)

\* ------------------------------------------------------------------ state
VARIABLES
  heap,            \* the record objects, in allocation order
  typeMaps,        \* this.typeMaps: per type idToRecord, records, findAllCache
  pendingSave,     \* this._pendingSave
  flushScheduled,  \* once(this, 'flushPendingSave') is queued in the run loop
  flushPos,        \* 0, or the index flushPendingSave's forEach is at
  flushLen,        \* the length forEach fixed when it started
  finds,           \* adapter find calls that have not completed
  findAlls,        \* per type, adapter findAll calls that have not completed
  promises,        \* the promises findById has returned
  findManys,       \* the last fetchMany: the records it was given and the
                   \* adapter findMany calls it made
  manyArray,       \* the many array the last findMany created
  relationshipChanges,  \* this.relationshipChanges
  registrations,   \* the arguments of the n-th addRelationshipChangeFor, whose
                   \* change object is the n-th one made
  ledgerCall,      \* the last call on the relationship changes: its arguments
                   \* and what it returned
  stores,          \* the store instances: what this.typeMaps,
                   \* this.relationshipChanges and this._pendingSave refer to
  cells,           \* the objects the store instances refer to, by address
  calledStore,     \* the store instance the last operation was called on
  savedMany,       \* the last didSaveRecords: its arguments and the records it
                   \* acknowledged, in order
  dispatched,      \* log of the commit hooks flushPendingSave has invoked
  acked,           \* per record, acknowledgements received from the adapter
  unloaded,        \* the records dematerializeRecord has been called on
  returned,        \* the records find/getById have returned
  counts,          \* call counters: scheduleSave, once, flushPendingSave,
                   \* RecordArray.create, registerFilteredRecordArray per type
  lastCall         \* the store call made last, what it returned or threw

vars == <<heap, typeMaps, pendingSave, flushScheduled, flushPos, flushLen,
          finds, findAlls, promises, findManys, manyArray, savedMany,
          relationshipChanges, registrations, ledgerCall, stores, cells,
          calledStore, dispatched, acked, unloaded, returned,
          counts, lastCall>>

Refs == 1..MaxRecords

\* type._create({ id: id, store: this }): a record starts empty
NewRecord(type, id) ==
  [type |-> type, id |-> id, stage |-> "empty",
   isNew |-> FALSE, isDeleted |-> FALSE, inFlight |-> FALSE]

\* typeMapFor: the type map a type gets on first use
typeMapFor ==
  [idToRecord |-> [key \in Keys |-> 0], records |-> <<>>,
   findAllCache |-> 0, isUpdating |-> FALSE]

\* the fields typeMapFor gives a type map (findAllCache is added by all())
TypeMapFields == {"idToRecord", "records", "metadata", "findAllCache"}

\* the store state the lookup helpers read and write
Store == [heap |-> heap, typeMaps |-> typeMaps]

Result(h, tm, ret, threw) ==
  [heap |-> h, typeMaps |-> tm, ret |-> ret, threw |-> threw]

Call(op, type, id, ret, promise, threw, issued, pre) ==
  [op |-> op, type |-> type, id |-> id, ret |-> ret, promise |-> promise,
   threw |-> threw, issued |-> issued, pre |-> pre]

\* ---------------------------------------------------------- record lifecycle
\* (DS.Model's state machine, seen through the flags the store reads)
loadedData(rec) == [rec EXCEPT !.stage = "loaded", !.isNew = TRUE]
loadingData(rec) == [rec EXCEPT !.stage = "loading"]
setupData(rec) == [rec EXCEPT !.stage = "loaded"]
adapterWillCommit(rec) == [rec EXCEPT !.inFlight = TRUE]
adapterDidCommit(rec) == [rec EXCEPT !.inFlight = FALSE, !.isNew = FALSE]
becameDeleted(rec) == [rec EXCEPT !.isDeleted = TRUE]
fetchFailed(rec) == [rec EXCEPT !.stage = "empty"]

\* ------------------------------------------------------------ identity map
\* buildRecord(type, id)
buildRecord(st, type, id) ==
  LET idToRecord == st.typeMaps[type].idToRecord
      r == Len(st.heap) + 1
  IN IF Truthy(id) /\ idToRecord[PropKey(id)] # 0
     THEN Result(st.heap, st.typeMaps, 0, "AssertionError")
     ELSE Result(Append(st.heap, NewRecord(type, id)),
                 [st.typeMaps EXCEPT
                    ![type].idToRecord =
                       IF Truthy(id) THEN [@ EXCEPT ![PropKey(id)] = r] ELSE @,
                    ![type].records = Append(@, r)],
                 r, "")

\* hasRecordForId(type, id)
hasRecordForId(st, type, id) ==
  st.typeMaps[type].idToRecord[PropKey(coerceId(id))] # 0

\* recordForId(type, id)
recordForId(st, type, id) ==
  LET cid == coerceId(id)
      record == st.typeMaps[type].idToRecord[PropKey(cid)]
  IN IF record = 0 THEN buildRecord(st, type, cid)
     ELSE Result(st.heap, st.typeMaps, record, "")

\* getById(type, id)
getById(st, type, id) ==
  IF hasRecordForId(st, type, id) THEN recordForId(st, type, id)
  ELSE buildRecord(st, type, id)

\* load(type, data), data.id = id
load(st, type, id) ==
  LET got == recordForId(st, type, coerceId(id))
  IN Result([got.heap EXCEPT ![got.ret] = setupData(@)], got.typeMaps,
            got.ret, "")

\* push(type, data), data.id = id
push(st, type, id) ==
  LET ld == load(st, type, id)
  IN recordForId([heap |-> ld.heap, typeMaps |-> ld.typeMaps], type, id)

\* as updateId, with the assertion left out
updateIdUnchecked(st, r, dataId) ==
  LET id == coerceId(dataId)
      type == st.heap[r].type
  IN Result([st.heap EXCEPT ![r].id = id],
            [st.typeMaps EXCEPT ![type].idToRecord[PropKey(id)] = r],
            r, "")

\* updateId(record, data), data.id = dataId
updateId(st, r, dataId) ==
  LET oldId == st.heap[r].id
      id == coerceId(dataId)
      type == st.heap[r].type
  IN IF ~(oldId = Null \/ id = oldId)
     THEN Result(st.heap, st.typeMaps, r, "AssertionError")
     ELSE Result([st.heap EXCEPT ![r].id = id],
                 [st.typeMaps EXCEPT ![type].idToRecord[PropKey(id)] = r],
                 r, "")

\* didSaveRecord(record, data): hasData is `if (data)`
didSaveRecord(st, r, hasData, dataId) ==
  LET upd == IF hasData THEN updateId(st, r, dataId)
             ELSE Result(st.heap, st.typeMaps, r, "")
  IN IF upd.threw # "" THEN upd
     ELSE Result([upd.heap EXCEPT ![r] = adapterDidCommit(@)], upd.typeMaps,
                 r, "")

\* an element of a dataList: a data hash with an id, or nothing (undefined)
NoData == [data |-> FALSE, id |-> Undefined]
Data(id) == [data |-> TRUE, id |-> id]

\* the forEach of didSaveRecords from the k-th record on, i being its counter:
\* didSaveRecord(record, dataList && dataList[i++]); an exception ends it
RECURSIVE forEachSaved(_, _, _, _, _, _, _)
forEachSaved(st, acks, list, hasDataList, dataList, k, i) ==
  IF k > Len(list)
  THEN [heap |-> st.heap, typeMaps |-> st.typeMaps, acks |-> acks, threw |-> ""]
  ELSE LET data == IF hasDataList /\ i + 1 <= Len(dataList)
                   THEN dataList[i + 1] ELSE NoData
           got == didSaveRecord(st, list[k], data.data, data.id)
       IN IF got.threw # ""
          THEN [heap |-> got.heap, typeMaps |-> got.typeMaps, acks |-> acks,
                threw |-> got.threw]
          ELSE forEachSaved([heap |-> got.heap, typeMaps |-> got.typeMaps],
                            Append(acks, list[k]), list, hasDataList, dataList,
                            k + 1, IF hasDataList THEN i + 1 ELSE i)

\* as didSaveRecords, with the dataList never looked at
didSaveRecordsNoData(st, list, hasDataList, dataList) ==
  forEachSaved(st, <<>>, list, FALSE, dataList, 1, 0)

\* didSaveRecords(list, dataList); hasDataList is `dataList &&`
didSaveRecords(st, list, hasDataList, dataList) ==
  forEachSaved(st, <<>>, list, hasDataList, dataList, 1, 0)

\* didReceiveId(record, id): typeMap.idToCid and this.clientIdToId are objects
\* the store never creates, so the writes that follow the assertion throw
didReceiveId(st, r, id) ==
  LET oldId == st.heap[r].id
  IN IF ~(oldId = Undefined \/ id = oldId)
     THEN Result(st.heap, st.typeMaps, r, "AssertionError")
     ELSE IF "idToCid" \notin TypeMapFields
     THEN Result(st.heap, st.typeMaps, r, "TypeError")
     ELSE Result(st.heap, st.typeMaps, r, "")

\* indexOf(array, item): 0-based, -1 when absent
indexOf(array, item) ==
  IF \E i \in 1..Len(array) : array[i] = item
  THEN (CHOOSE i \in 1..Len(array) :
          array[i] = item /\ \A j \in 1..(i - 1) : array[j] # item) - 1
  ELSE -1

\* array.splice(loc, 1): a negative loc counts from the end of the array
splice1(array, loc) ==
  LET n == Len(array)
      start == IF loc < 0 THEN (IF n + loc < 0 THEN 0 ELSE n + loc)
               ELSE (IF loc > n THEN n ELSE loc)
  IN IF start >= n THEN array
     ELSE SubSeq(array, 1, start) \o SubSeq(array, start + 2, n)

\* dematerializeRecord(record): what it does to the record, in statement order
dematerializeSteps(rec) ==
  <<"updateRecordArrays">>
    \o (IF Truthy(rec.id) THEN <<"delete idToRecord[id]">> ELSE <<>>)
    \o <<"indexOf", "splice">>

\* dematerializeRecord(record)
dematerializeRecord(st, r) ==
  LET type == st.heap[r].type
      id == st.heap[r].id
      typeMap == st.typeMaps[type]
      loc == indexOf(typeMap.records, r)
  IN Result(st.heap,
            [st.typeMaps EXCEPT
               ![type].idToRecord =
                  IF Truthy(id) THEN [@ EXCEPT ![PropKey(id)] = 0] ELSE @,
               ![type].records = splice1(@, loc)],
            r, "")

\* --------------------------------------------------------------- persisting
\* as CommitHook, with the isDeleted branch left out
CommitHookNoDelete(rec) ==
  IF rec.isNew THEN "createRecord" ELSE "updateRecord"

\* the branch flushPendingSave takes for a record
CommitHook(rec) ==
  IF rec.isNew THEN "createRecord"
  ELSE IF rec.isDeleted THEN "deleteRecord"
  ELSE "updateRecord"

Occurrences(seq, r) == Cardinality({i \in 1..Len(seq) : seq[i].record = r})

\* the adapter has been handed r and has not acknowledged it yet
Outstanding(r) == Occurrences(dispatched, r) > acked[r]

\* ------------------------------------------------------ relationship changes
\* a JavaScript object used as a map: {} , `key in obj`, obj[key] = value and
\* delete obj[key]
EmptyObject == [k \in {} |-> 0]
has(obj, key) == key \in DOMAIN obj
put(obj, key, value) ==
  [k \in DOMAIN obj \cup {key} |-> IF k = key THEN value ELSE obj[k]]
delete(obj, key) == [k \in DOMAIN obj \ {key} |-> obj[k]]

\* no record: null passed as the parent
NoRecord == 0

\* record.clientId: the client-local identifier a record carries, one per
\* record object, as a property key
clientId(record) == [k |-> "clientId", r |-> record]

\* a record object itself used as a property key: the string its toString
\* gives, which is no client id; null gives "null"
objectKey(record) ==
  IF record = NoRecord THEN [k |-> "null", r |-> 0]
  ELSE [k |-> "toString", r |-> record]

\* parentRecord ? parentRecord.clientId : parentRecord, as a property key
clientIdKey(record) ==
  IF record = NoRecord THEN [k |-> "null", r |-> 0] ELSE clientId(record)

\* as addRelationshipChangeFor, keeping the change a key already has
addRelationshipChangeKeep(changes, childRecord, childKey, parentRecord, parentKey, change) ==
  LET cid == clientId(childRecord)
      parentClientId == objectKey(parentRecord)
      key == childKey \o parentKey
      c1 == IF has(changes, cid) THEN changes ELSE put(changes, cid, EmptyObject)
      p1 == IF has(c1[cid], parentClientId) THEN c1[cid]
            ELSE put(c1[cid], parentClientId, EmptyObject)
      k1 == IF has(p1[parentClientId], key) THEN p1[parentClientId]
            ELSE put(p1[parentClientId], key, EmptyObject)
      t1 == IF has(k1[key], change.changeType) THEN k1[key]
            ELSE put(k1[key], change.changeType, change)
  IN put(c1, cid, put(p1, parentClientId, put(k1, key, t1)))

\* addRelationshipChangeFor(childRecord, childKey, parentRecord, parentKey,
\* change): this.relationshipChanges afterwards
addRelationshipChangeFor(changes, childRecord, childKey, parentRecord, parentKey, change) ==
  LET cid == clientId(childRecord)
      parentClientId == objectKey(parentRecord)
      key == childKey \o parentKey
      c1 == IF has(changes, cid) THEN changes ELSE put(changes, cid, EmptyObject)
      p1 == IF has(c1[cid], parentClientId) THEN c1[cid]
            ELSE put(c1[cid], parentClientId, EmptyObject)
      k1 == IF has(p1[parentClientId], key) THEN p1[parentClientId]
            ELSE put(p1[parentClientId], key, EmptyObject)
      t1 == put(k1[key], change.changeType, change)
  IN put(c1, cid, put(p1, parentClientId, put(k1, key, t1)))

\* removeRelationshipChangeFor(clientRecord, childKey, parentRecord,
\* parentKey, type): this.relationshipChanges afterwards
removeRelationshipChangeFor(changes, clientRecord, childKey, parentRecord, parentKey, type) ==
  LET cid == clientId(clientRecord)
      parentClientId == clientIdKey(parentRecord)
      key == childKey \o parentKey
  IN IF \/ ~has(changes, cid)
        \/ ~has(changes[cid], parentClientId)
        \/ ~has(changes[cid][parentClientId], key)
     THEN changes
     ELSE put(changes, cid,
              put(changes[cid], parentClientId,
                  put(changes[cid][parentClientId], key,
                      delete(changes[cid][parentClientId][key], type))))

\* the members of a finite set as a sequence, each once
RECURSIVE toArray(_)
toArray(set) ==
  IF set = {} THEN <<>>
  ELSE LET x == CHOOSE y \in set : TRUE IN <<x>> \o toArray(set \ {x})

\* relationshipChangePairsFor(record): what the two for-in loops push, as
\* [objKey, changeKey, pushed]; the order of the array is left out
relationshipChangePairsFor(changes, record) ==
  IF record = NoRecord THEN <<>>
  ELSE IF ~has(changes, clientId(record)) THEN <<>>
  ELSE LET changesObject == changes[clientId(record)]
       IN toArray({[objKey |-> objKey, changeKey |-> changeKey,
                    pushed |-> changesObject[objKey][changeKey]] :
                      <<objKey, changeKey>> \in
                        {<<o, c>> \in (DOMAIN changesObject) \X RelationKeys :
                           has(changesObject[o], c)}})

\* no call on the relationship changes yet
NoLedgerCall ==
  [op |-> "", child |-> NoRecord, parent |-> NoRecord, childKey |-> "",
   parentKey |-> "", type |-> "", n |-> 0, returned |-> <<>>]

\* ------------------------------------------------------------ store instances
\* as init, with the objects of the first instance given to every instance
initShared(objects) ==
  IF Len(objects) = 0
  THEN [store |-> [typeMaps |-> 1, relationshipChanges |-> 2, pendingSave |-> 3],
        cells |-> <<[t \in TypeRefs |-> typeMapFor], EmptyObject, <<>>>>]
  ELSE [store |-> [typeMaps |-> 1, relationshipChanges |-> 2, pendingSave |-> 3],
        cells |-> objects]

\* init(): this.typeMaps = {}, this.relationshipChanges = {} and
\* this._pendingSave = [] are three new objects; objects are those there are
\* already
init(objects) ==
  [store |-> [typeMaps |-> Len(objects) + 1,
              relationshipChanges |-> Len(objects) + 2,
              pendingSave |-> Len(objects) + 3],
   cells |-> objects \o <<[t \in TypeRefs |-> typeMapFor], EmptyObject, <<>>>>]

\* two stores created one after the other
TwoStores ==
  LET first == init(<<>>)
      second == init(first.cells)
  IN [stores |-> <<first.store, second.store>>, cells |-> second.cells]

StoreIds == {1, 2}
storeVars == <<stores, cells, calledStore>>

\* what a store instance sees as its type maps, relationship changes and
\* pending saves
StoreState(instances, objects, s) ==
  [typeMaps |-> objects[instances[s].typeMaps],
   relationshipChanges |-> objects[instances[s].relationshipChanges],
   pendingSave |-> objects[instances[s].pendingSave]]

\* ------------------------------------------------------------------- Init
Init ==
  /\ heap = <<>>
  /\ typeMaps = [t \in TypeRefs |-> typeMapFor]
  /\ pendingSave = <<>>
  /\ flushScheduled = FALSE
  /\ flushPos = 0
  /\ flushLen = 0
  /\ finds = {}
  /\ findAlls = [t \in Types |-> 0]
  /\ promises = <<>>
  /\ findManys = [records |-> <<>>, calls |-> <<>>]
  /\ relationshipChanges = EmptyObject
  /\ stores = TwoStores.stores
  /\ cells = TwoStores.cells
  /\ calledStore = 0
  /\ registrations = <<>>
  /\ ledgerCall = NoLedgerCall
  /\ savedMany = [list |-> <<>>, hasDataList |-> FALSE, dataList |-> <<>>,
                  acks |-> <<>>]
  /\ manyArray = [content |-> <<>>, loadingRecordsCount |-> 0,
                  isLoaded |-> FALSE, waiting |-> <<>>, didLoad |-> 0]
  /\ dispatched = <<>>
  /\ acked = [r \in Refs |-> 0]
  /\ unloaded = {}
  /\ returned = {}
  /\ counts = [scheduleSave |-> 0, once |-> 0, flush |-> 0, arrays |-> 0,
               registered |-> [t \in TypeRefs |-> 0]]
  /\ lastCall = Call("init", "", Null, 0, 0, "", FALSE, FALSE)

Live == 1..Len(heap)

\* no adapter hook is running: the call comes from outside a flush
Idle == flushPos = 0

\* an adapter commit hook has been entered and may call back into the store
InHook == flushPos = 0 \/ flushPos >= 2

saveVars == <<pendingSave, flushScheduled, flushPos, flushLen, dispatched,
              acked, counts>>
fetchVars == <<finds, findAlls, promises, findManys>>

\* what only the calls on relationships write
sideVars == <<manyArray, savedMany, relationshipChanges, registrations,
              ledgerCall, stores, cells, calledStore>>

\* ---------------------------------------------------------------- actions
\* createRecord(type, properties), properties.id = id
CreateRecord(type, id) ==
  LET generated == Null     \* _generateId: no generateIdForRecord on the adapter
      cid == coerceId(IF isNone(id) THEN generated ELSE id)
      built == buildRecord(Store, type, cid)
  IN /\ Idle
     /\ Len(built.heap) <= MaxRecords
     /\ heap' = IF built.threw = "" THEN [built.heap EXCEPT ![built.ret] = loadedData(@)]
                ELSE built.heap
     /\ typeMaps' = built.typeMaps
     /\ lastCall' = Call("createRecord", type, id, built.ret, 0, built.threw,
                         FALSE, FALSE)
     /\ UNCHANGED <<saveVars, fetchVars, sideVars, unloaded, returned>>

\* getById(type, id)
GetById(type, id) ==
  LET got == getById(Store, type, id)
  IN /\ Idle
     /\ Len(got.heap) <= MaxRecords
     /\ heap' = got.heap
     /\ typeMaps' = got.typeMaps
     /\ returned' = IF got.ret = 0 THEN returned ELSE returned \cup {got.ret}
     /\ lastCall' = Call("getById", type, id, got.ret, 0, got.threw, FALSE, FALSE)
     /\ UNCHANGED <<saveVars, fetchVars, sideVars, unloaded>>

\* an adapter find for (type, id) is under way for a record still in the store
FetchOutstanding(type, id) ==
  \E f \in finds : /\ f.type = type
                   /\ coerceId(f.id) = coerceId(id)
                   /\ f.record \notin unloaded

\* find(type, id) with a scalar id: findById(type, coerceId(id)), and
\* fetchRecord when the record is empty
Find(type, id) ==
  LET cid == coerceId(id)
      got == getById(Store, type, cid)
      record == got.ret
      p == Len(promises) + 1
      fetch == got.heap[record].stage = "empty"
  IN /\ Idle
     /\ Len(got.heap) <= MaxRecords
     /\ Len(promises) < MaxFinds
     /\ got.threw = ""
     /\ typeMaps' = got.typeMaps
     /\ returned' = returned \cup {record}
     /\ IF fetch
        THEN /\ heap' = [got.heap EXCEPT ![record] = loadingData(@)]
             /\ finds' = finds \cup {[type |-> type, id |-> got.heap[record].id,
                                      record |-> record, resolver |-> p]}
             /\ promises' = Append(promises, [state |-> "pending", value |-> 0])
        ELSE /\ heap' = got.heap
             /\ finds' = finds
             /\ promises' = Append(promises, [state |-> "fulfilled", value |-> record])
     /\ lastCall' = Call("find", type, id, record, p, "", fetch,
                         FetchOutstanding(type, id))
     /\ UNCHANGED <<saveVars, findAlls, findManys, sideVars, unloaded>>

\* push(type, data), data.id = id
Push(type, id) ==
  LET got == push(Store, type, id)
  IN /\ Idle
     /\ Len(got.heap) <= MaxRecords
     /\ heap' = got.heap
     /\ typeMaps' = got.typeMaps
     /\ lastCall' = Call("push", type, id, got.ret, 0, got.threw, FALSE, FALSE)
     /\ UNCHANGED <<saveVars, fetchVars, sideVars, unloaded, returned>>

\* the adapter's find completes: it pushes the payload and resolves the resolver
\* with the record push returns
AdapterFindSucceeds(f) ==
  LET got == push(Store, f.type, f.id)
  IN /\ Idle
     /\ f \in finds
     /\ Len(got.heap) <= MaxRecords
     /\ heap' = got.heap
     /\ typeMaps' = got.typeMaps
     /\ finds' = finds \ {f}
     /\ promises' = [promises EXCEPT ![f.resolver] =
                        [state |-> "fulfilled", value |-> got.ret]]
     /\ lastCall' = Call("findSucceeded", f.type, f.id, got.ret, f.resolver, "",
                         FALSE, FALSE)
     /\ UNCHANGED <<saveVars, findAlls, findManys, sideVars, unloaded, returned>>

\* the adapter's find fails: the resolver is rejected, the record is empty again
AdapterFindFails(f) ==
  /\ Idle
  /\ f \in finds
  /\ heap' = [heap EXCEPT ![f.record] =
                 IF @.stage = "loading" THEN fetchFailed(@) ELSE @]
  /\ finds' = finds \ {f}
  /\ promises' = [promises EXCEPT ![f.resolver] =
                     [state |-> "rejected", value |-> 0]]
  /\ lastCall' = Call("findFailed", f.type, f.id, f.record, f.resolver, "",
                      FALSE, FALSE)
  /\ UNCHANGED <<typeMaps, saveVars, findAlls, findManys, sideVars, unloaded, returned>>

\* record.unloadRecord() reaching dematerializeRecord(record)
DematerializeRecord(r) ==
  LET got == dematerializeRecord(Store, r)
  IN /\ Idle
     /\ r \in Live
     /\ heap' = got.heap
     /\ typeMaps' = got.typeMaps
     /\ unloaded' = unloaded \cup {r}
     /\ lastCall' = Call("dematerializeRecord", heap[r].type, heap[r].id, r, 0,
                         "", FALSE, r \in unloaded)
     /\ UNCHANGED <<saveVars, fetchVars, sideVars, returned>>

\* record.deleteRecord() on a loaded, saved record
DeleteRecord(r) ==
  /\ Idle
  /\ r \in Live /\ r \notin unloaded
  /\ heap[r].stage = "loaded"
  /\ ~heap[r].isNew /\ ~heap[r].isDeleted /\ ~heap[r].inFlight
  /\ heap' = [heap EXCEPT ![r] = becameDeleted(@)]
  /\ lastCall' = Call("deleteRecord", heap[r].type, heap[r].id, r, 0, "",
                      FALSE, FALSE)
  /\ UNCHANGED <<typeMaps, saveVars, fetchVars, sideVars, unloaded, returned>>

\* scheduleSave(record, resolver)
ScheduleSave(r) ==
  /\ InHook
  /\ r \in Live /\ r \notin unloaded
  /\ heap[r].stage = "loaded"
  /\ counts.scheduleSave < MaxSaves
  /\ heap' = [heap EXCEPT ![r] = adapterWillCommit(@)]
  /\ pendingSave' = Append(pendingSave,
                           [record |-> r, isNew |-> heap[r].isNew,
                            isDeleted |-> heap[r].isDeleted])
  /\ flushScheduled' = TRUE
  /\ counts' = [counts EXCEPT !.scheduleSave = @ + 1,
                              !.once = IF flushScheduled THEN @ ELSE @ + 1]
  /\ lastCall' = Call("scheduleSave", heap[r].type, heap[r].id, r, 0, "",
                      FALSE, \E i \in 1..Len(pendingSave) : pendingSave[i].record = r)
  /\ UNCHANGED <<typeMaps, flushPos, flushLen, dispatched, acked, fetchVars, sideVars,
                 unloaded, returned>>

\* the run loop invokes flushPendingSave: forEach fixes the length it walks
FlushBegin ==
  /\ flushScheduled
  /\ flushPos = 0
  /\ flushPos' = 1
  /\ flushLen' = Len(pendingSave)
  /\ flushScheduled' = FALSE
  /\ counts' = [counts EXCEPT !.flush = @ + 1]
  /\ lastCall' = Call("flushPendingSave", "", Null, 0, 0, "", FALSE, FALSE)
  /\ UNCHANGED <<heap, typeMaps, pendingSave, dispatched, acked, fetchVars, sideVars,
                 unloaded, returned>>

\* one turn of flushPendingSave's forEach: the adapter hook for one tuple
FlushDispatch ==
  LET tuple == pendingSave[flushPos]
      record == heap[tuple.record]
  IN /\ flushPos >= 1
     /\ flushPos <= flushLen
     /\ dispatched' = Append(dispatched,
                             [record |-> tuple.record,
                              hook |-> CommitHook(record),
                              isNew |-> record.isNew,
                              isDeleted |-> record.isDeleted,
                              newAtSchedule |-> tuple.isNew,
                              deletedAtSchedule |-> tuple.isDeleted,
                              flush |-> counts.flush])
     /\ flushPos' = flushPos + 1
     /\ lastCall' = Call(CommitHook(record), record.type, record.id,
                         tuple.record, 0, "", TRUE, FALSE)
     /\ UNCHANGED <<heap, typeMaps, pendingSave, flushScheduled, flushLen,
                    acked, counts, fetchVars, sideVars, unloaded, returned>>

\* one turn of flushPendingSave's forEach in which the call of the adapter hook
\* throws (adapterForType gave no adapter, or the hook threw): nothing catches
\* it, so forEach and flushPendingSave end there, before _pendingSave = []
FlushDispatchThrows ==
  LET tuple == pendingSave[flushPos]
      record == heap[tuple.record]
  IN /\ flushPos >= 1
     /\ flushPos <= flushLen
     /\ flushPos' = 0
     /\ lastCall' = Call("flushPendingSave", record.type, record.id,
                         tuple.record, 0, "TypeError", FALSE, FALSE)
     /\ UNCHANGED <<heap, typeMaps, pendingSave, flushScheduled, flushLen,
                    dispatched, acked, counts, fetchVars, sideVars, unloaded, returned>>

\* as FlushEnd, with the queue left as it is
FlushEndKeepsQueue ==
  /\ flushPos >= 1
  /\ flushPos > flushLen
  /\ pendingSave' = pendingSave
  /\ flushPos' = 0
  /\ lastCall' = Call("flushed", "", Null, 0, 0, "", FALSE, FALSE)
  /\ UNCHANGED <<heap, typeMaps, flushScheduled, flushLen, dispatched, acked,
                 counts, fetchVars, sideVars, unloaded, returned>>

\* flushPendingSave's last statement: this._pendingSave = []
FlushEnd ==
  /\ flushPos >= 1
  /\ flushPos > flushLen
  /\ pendingSave' = <<>>
  /\ flushPos' = 0
  /\ lastCall' = Call("flushed", "", Null, 0, 0, "", FALSE, FALSE)
  /\ UNCHANGED <<heap, typeMaps, flushScheduled, flushLen, dispatched, acked,
                 counts, fetchVars, sideVars, unloaded, returned>>

\* the adapter acknowledges a record it was handed: didSaveRecord(record, data)
DidSaveRecord(r, hasData, dataId) ==
  LET got == didSaveRecord(Store, r, hasData, dataId)
  IN /\ InHook
     /\ r \in Live
     /\ Outstanding(r)
     /\ heap' = got.heap
     /\ typeMaps' = got.typeMaps
     /\ acked' = IF got.threw = "" THEN [acked EXCEPT ![r] = @ + 1] ELSE acked
     /\ lastCall' = Call("didSaveRecord", heap[r].type,
                         IF hasData THEN dataId ELSE Undefined, r, 0, got.threw,
                         FALSE, hasData)
     /\ UNCHANGED <<pendingSave, flushScheduled, flushPos, flushLen, dispatched,
                    counts, fetchVars, sideVars, unloaded, returned>>

\* the adapter acknowledges the records it was handed at once:
\* didSaveRecords(list, dataList)
DidSaveRecords(list, hasDataList, dataList) ==
  LET got == didSaveRecords(Store, list, hasDataList, dataList)
  IN /\ InHook
     /\ \A k \in 1..Len(list) : Outstanding(list[k])
     /\ heap' = got.heap
     /\ typeMaps' = got.typeMaps
     /\ acked' = [r \in DOMAIN acked |->
                   acked[r] + Cardinality({k \in 1..Len(got.acks) : got.acks[k] = r})]
     /\ savedMany' = [list |-> list, hasDataList |-> hasDataList,
                      dataList |-> dataList, acks |-> got.acks]
     /\ lastCall' = Call("didSaveRecords", "", Undefined, 0, 0, got.threw,
                         FALSE, hasDataList)
     /\ UNCHANGED <<pendingSave, flushScheduled, flushPos, flushLen, dispatched,
                    counts, fetchVars, manyArray, relationshipChanges,
                    registrations, ledgerCall, storeVars, unloaded, returned>>

\* the adapter reports the id of a record it was handed: didReceiveId(record, id)
DidReceiveId(r, id) ==
  LET got == didReceiveId(Store, r, id)
      oldId == heap[r].id
  IN /\ Idle
     /\ r \in Live
     /\ Outstanding(r)
     /\ heap' = got.heap
     /\ typeMaps' = got.typeMaps
     /\ lastCall' = Call("didReceiveId", heap[r].type, id, r, 0, got.threw,
                         FALSE, ~isNone(oldId) /\ oldId # id)
     /\ UNCHANGED <<saveVars, fetchVars, sideVars, unloaded, returned>>

\* the adapter acknowledges a record it created with the id the backend gave
\* it: didReceiveId(record, id), then didSaveRecord(record, {id: id}); a call
\* that throws ends the adapter's callback
AcknowledgeCreated(r, id) ==
  LET received == didReceiveId(Store, r, id)
      got == IF received.threw # "" THEN received
             ELSE didSaveRecord([heap |-> received.heap,
                                 typeMaps |-> received.typeMaps], r, TRUE, id)
      type == heap[r].type
  IN /\ Idle
     /\ r \in Live
     /\ Outstanding(r)
     /\ dispatched[Len(dispatched)].record = r
     /\ dispatched[Len(dispatched)].hook = "createRecord"
     /\ heap' = got.heap
     /\ typeMaps' = got.typeMaps
     /\ acked' = IF got.threw = "" THEN [acked EXCEPT ![r] = @ + 1] ELSE acked
     /\ lastCall' = Call("acknowledgeCreated", type, id, r, 0, got.threw, FALSE,
                         /\ isNone(heap[r].id)
                         /\ typeMaps[type].idToRecord[PropKey(id)] = 0)
     /\ UNCHANGED <<pendingSave, flushScheduled, flushPos, flushLen, dispatched,
                    counts, fetchVars, sideVars, unloaded, returned>>

\* ---------------------------------------------------------------- fetch many
\* the distinct types of the records, in the order they first appear: the keys
\* of recordsByTypeMap in insertion order
RECURSIVE typesInOrder(_, _)
typesInOrder(h, records) ==
  IF records = <<>> THEN <<>>
  ELSE LET front == typesInOrder(h, SubSeq(records, 1, Len(records) - 1))
           type == h[records[Len(records)]].type
       IN IF \E i \in 1..Len(front) : front[i] = type THEN front
          ELSE Append(front, type)

\* records.mapProperty('id')
mapPropertyId(h, records) == [i \in 1..Len(records) |-> h[records[i]].id]

\* as fetchMany, with one adapter call for each record
fetchManyPerRecord(h, records) ==
  [i \in 1..Len(records) |->
     [type |-> h[records[i]].type, ids |-> <<h[records[i]].id>>]]

\* fetchMany(records, owner, resolver): the adapter._findMany calls it makes
fetchMany(h, records) ==
  IF Len(records) = 0 THEN <<>>
  ELSE LET types == typesInOrder(h, records)
       IN [i \in 1..Len(types) |->
             [type |-> types[i],
              ids |-> mapPropertyId(h, SelectSeq(records,
                                       LAMBDA r : h[r].type = types[i]))]]

\* the lists of records fetchMany may be given: the records of the store in
\* any order, each at most once
RecordLists ==
  {records \in UNION {[1..n -> Live] : n \in 0..Len(heap)} :
     \A i, j \in 1..Len(records) : records[i] = records[j] => i = j}

\* fetchMany(records, owner, resolver)
FetchMany(records) ==
  LET calls == fetchMany(heap, records)
  IN /\ Idle
     /\ findManys' = [records |-> records, calls |-> calls]
     /\ lastCall' = Call("fetchMany", "", Null, 0, 0, "", Len(calls) > 0, FALSE)
     /\ UNCHANGED <<heap, typeMaps, saveVars, finds, findAlls, promises,
                    sideVars, unloaded, returned>>

\* recordArrayManager.createManyArray(type, records): a many array over the
\* records, not loaded yet
createManyArray(records) ==
  [content |-> records, loadingRecordsCount |-> 0, isLoaded |-> FALSE,
   waiting |-> <<>>, didLoad |-> 0]

\* as findMany, with every record taken for an empty one
findManyEvery(h, records) ==
  LET unloadedRecords == records
      loading == [r \in 1..Len(h) |->
                    IF \E i \in 1..Len(unloadedRecords) : unloadedRecords[i] = r
                    THEN loadingData(h[r]) ELSE h[r]]
      array == [createManyArray(records) EXCEPT
                  !.loadingRecordsCount = Len(unloadedRecords)]
  IN IF Len(unloadedRecords) > 0
     THEN [heap |-> loading, fetched |-> TRUE, unloadedRecords |-> unloadedRecords,
           manyArray |-> [array EXCEPT !.waiting = unloadedRecords]]
     ELSE [heap |-> loading, fetched |-> FALSE, unloadedRecords |-> unloadedRecords,
           manyArray |-> [array EXCEPT !.isLoaded = TRUE, !.didLoad = @ + 1]]

\* findMany(owner, records, type, resolver): the heap it leaves, whether it
\* calls fetchMany and with which records, and the many array it returns
findMany(h, records) ==
  LET unloadedRecords == SelectSeq(records, LAMBDA r : h[r].stage = "empty")
      loading == [r \in 1..Len(h) |->
                    IF \E i \in 1..Len(unloadedRecords) : unloadedRecords[i] = r
                    THEN loadingData(h[r]) ELSE h[r]]
      array == [createManyArray(records) EXCEPT
                  !.loadingRecordsCount = Len(unloadedRecords)]
  IN IF Len(unloadedRecords) > 0
     THEN [heap |-> loading, fetched |-> TRUE, unloadedRecords |-> unloadedRecords,
           manyArray |-> [array EXCEPT !.waiting = unloadedRecords]]
     ELSE [heap |-> loading, fetched |-> FALSE, unloadedRecords |-> unloadedRecords,
           manyArray |-> [array EXCEPT !.isLoaded = TRUE, !.didLoad = @ + 1]]

\* findMany(owner, records, type, resolver)
FindMany(records) ==
  LET got == findMany(heap, records)
  IN /\ Idle
     /\ heap' = got.heap
     /\ manyArray' = got.manyArray
     /\ findManys' = IF got.fetched
                     THEN [records |-> got.unloadedRecords,
                           calls |-> fetchMany(got.heap, got.unloadedRecords)]
                     ELSE findManys
     /\ lastCall' = Call("findMany", "", Null, 0, 0, "", got.fetched, FALSE)
     /\ UNCHANGED <<typeMaps, saveVars, finds, findAlls, promises, savedMany,
                    relationshipChanges, registrations, ledgerCall, storeVars, unloaded,
                    returned>>

\* ----------------------------------------------------------------- find all
\* all(type): the cached record array, created and registered on first use,
\* in the type map typeMapFor gives for the type as it was passed; a record
\* array is the number of its RecordArray.create call, 0 is none
all(tm, cnt, type) ==
  LET findAllCache == tm[type].findAllCache
      array == cnt.arrays + 1
  IN IF findAllCache # 0
     THEN [typeMaps |-> tm, counts |-> cnt, ret |-> findAllCache]
     ELSE [typeMaps |-> [tm EXCEPT ![type].findAllCache = array],
           counts |-> [cnt EXCEPT !.arrays = array, !.registered[type] = @ + 1],
           ret |-> array]

\* all(type)
All(type) ==
  LET got == all(typeMaps, counts, type)
  IN /\ Idle
     /\ typeMaps' = got.typeMaps
     /\ counts' = got.counts
     /\ lastCall' = Call("all", type, Undefined, got.ret, 0, "", FALSE,
                         typeMaps[type].findAllCache # 0)
     /\ UNCHANGED <<heap, pendingSave, flushScheduled, flushPos, flushLen,
                    dispatched, acked, fetchVars, sideVars, unloaded, returned>>

\* as fetchAll, but skipping the adapter while the array is still updating
fetchAllOnce(tm, type) ==
  [typeMaps |-> [tm EXCEPT ![type].isUpdating = TRUE],
   issued |-> IF tm[type].isUpdating THEN 0 ELSE 1]

\* fetchAll(type, array): [typeMaps, adapter findAll calls made]
fetchAll(tm, type) ==
  [typeMaps |-> [tm EXCEPT ![type].isUpdating = TRUE], issued |-> 1]

\* findAll(type): type = modelFor(type), then fetchAll(type, this.all(type));
\* ret is the array it passes
FindAll(typeRef) ==
  LET type == modelFor(typeRef)
      array == all(typeMaps, counts, type)
      got == fetchAll(array.typeMaps, type)
  IN /\ Idle
     /\ findAlls[type] + got.issued <= MaxFindAlls
     /\ typeMaps' = got.typeMaps
     /\ counts' = array.counts
     /\ findAlls' = [findAlls EXCEPT ![type] = @ + got.issued]
     /\ lastCall' = Call("findAll", type, Undefined, array.ret, 0, "",
                         got.issued > 0,
                         typeMaps[type].isUpdating /\ findAlls[type] > 0)
     /\ UNCHANGED <<heap, pendingSave, flushScheduled, flushPos, flushLen,
                    dispatched, acked, finds, promises, findManys, sideVars,
                    unloaded, returned>>

\* the adapter's findAll completes and calls didUpdateAll(type)
DidUpdateAll(type) ==
  /\ Idle
  /\ findAlls[type] > 0
  /\ typeMaps[type].findAllCache # 0
  /\ typeMaps' = [typeMaps EXCEPT ![type].isUpdating = FALSE]
  /\ findAlls' = [findAlls EXCEPT ![type] = @ - 1]
  /\ lastCall' = Call("didUpdateAll", type, Undefined, 0, 0, "", FALSE, FALSE)
  /\ UNCHANGED <<heap, saveVars, finds, promises, findManys, sideVars,
                    unloaded, returned>>

\* ------------------------------------------------------ relationship changes
\* addRelationshipChangeFor(childRecord, childKey, parentRecord, parentKey,
\* change), change being a new change object of the given changeType
AddRelationshipChangeFor(childRecord, childKey, parentRecord, parentKey, type) ==
  LET n == Len(registrations) + 1
      change == [changeType |-> type, n |-> n]
  IN /\ Idle
     /\ childRecord \in Live
     /\ parentRecord \in Live \cup {NoRecord}
     /\ n <= MaxChanges
     /\ relationshipChanges' =
          addRelationshipChangeFor(relationshipChanges, childRecord, childKey,
                                   parentRecord, parentKey, change)
     /\ registrations' = Append(registrations,
                                [child |-> childRecord, parent |-> parentRecord,
                                 childKey |-> childKey, parentKey |-> parentKey,
                                 type |-> type])
     /\ ledgerCall' = [op |-> "add", child |-> childRecord,
                       parent |-> parentRecord, childKey |-> childKey,
                       parentKey |-> parentKey, type |-> type, n |-> n,
                       returned |-> <<>>]
     /\ lastCall' = Call("addRelationshipChangeFor", "", Null, 0, 0, "", FALSE,
                         FALSE)
     /\ UNCHANGED <<heap, typeMaps, saveVars, fetchVars, manyArray, savedMany, storeVars,
                    unloaded, returned>>

\* removeRelationshipChangeFor(clientRecord, childKey, parentRecord, parentKey,
\* type)
RemoveRelationshipChangeFor(clientRecord, childKey, parentRecord, parentKey, type) ==
  /\ Idle
  /\ clientRecord \in Live
  /\ parentRecord \in Live \cup {NoRecord}
  /\ relationshipChanges' =
       removeRelationshipChangeFor(relationshipChanges, clientRecord, childKey,
                                   parentRecord, parentKey, type)
  /\ ledgerCall' = [op |-> "remove", child |-> clientRecord,
                    parent |-> parentRecord, childKey |-> childKey,
                    parentKey |-> parentKey, type |-> type, n |-> 0,
                    returned |-> <<>>]
  /\ lastCall' = Call("removeRelationshipChangeFor", "", Null, 0, 0, "", FALSE,
                      FALSE)
  /\ UNCHANGED <<heap, typeMaps, saveVars, fetchVars, manyArray, savedMany, storeVars,
                 registrations, unloaded, returned>>

\* relationshipChangePairsFor(record)
RelationshipChangePairsFor(record) ==
  /\ Idle
  /\ record \in Live \cup {NoRecord}
  /\ ledgerCall' = [op |-> "pairsFor", child |-> record, parent |-> NoRecord,
                    childKey |-> "", parentKey |-> "", type |-> "", n |-> 0,
                    returned |-> relationshipChangePairsFor(relationshipChanges,
                                                            record)]
  /\ lastCall' = Call("relationshipChangePairsFor", "", Null, 0, 0, "", FALSE,
                      FALSE)
  /\ UNCHANGED <<heap, typeMaps, saveVars, fetchVars, manyArray, savedMany, storeVars,
                 relationshipChanges, registrations, unloaded, returned>>

\* ------------------------------------------------------------ store instances
\* the records and type maps an operation of store s starts from
StoreOf(s) == [heap |-> heap, typeMaps |-> StoreState(stores, cells, s).typeMaps]

\* the records and type maps `got` left by an operation `op` of store s
StoreWrote(s, op, type, id, got) ==
  /\ heap' = got.heap
  /\ cells' = [cells EXCEPT ![stores[s].typeMaps] = got.typeMaps]
  /\ calledStore' = s
  /\ lastCall' = Call(op, type, id, 0, 0, got.threw, FALSE, FALSE)
  /\ UNCHANGED <<typeMaps, saveVars, fetchVars, manyArray, savedMany,
                 relationshipChanges, registrations, ledgerCall, stores,
                 unloaded, returned>>

\* createRecord(type, {id: id}) on store s
OnStoreCreateRecord(s, type, id) ==
  LET built == buildRecord(StoreOf(s), type, coerceId(id))
  IN StoreWrote(s, "createRecord", type, id,
                IF built.threw = "" THEN [built EXCEPT !.heap[built.ret] = loadedData(@)]
                ELSE built)

\* load(type, {id: id}) on store s
OnStoreLoad(s, type, id) ==
  StoreWrote(s, "load", type, id, load(StoreOf(s), type, id))

\* find(type, id) on store s; the adapter's part is left out
OnStoreFind(s, type, id) ==
  LET got == getById(StoreOf(s), type, coerceId(id))
  IN /\ got.threw = ""
     /\ StoreWrote(s, "find", type, id,
                   IF got.heap[got.ret].stage = "empty"
                   THEN [got EXCEPT !.heap[got.ret] = loadingData(@)] ELSE got)

\* dematerializeRecord(record) on store s
OnStoreDematerializeRecord(s, r) ==
  /\ r \in Live
  /\ StoreWrote(s, "dematerializeRecord", heap[r].type, heap[r].id,
                dematerializeRecord(StoreOf(s), r))

\* scheduleSave(record) on store s
OnStoreScheduleSave(s, r) ==
  LET queue == StoreState(stores, cells, s).pendingSave
  IN /\ r \in Live
     /\ heap[r].stage = "loaded"
     /\ \A i \in 1..Len(queue) : queue[i].record # r
     /\ heap' = [heap EXCEPT ![r] = adapterWillCommit(@)]
     /\ cells' = [cells EXCEPT ![stores[s].pendingSave] =
                    Append(@, [record |-> r, isNew |-> heap[r].isNew,
                               isDeleted |-> heap[r].isDeleted])]
     /\ calledStore' = s
     /\ lastCall' = Call("scheduleSave", heap[r].type, heap[r].id, 0, 0, "",
                         FALSE, FALSE)
     /\ UNCHANGED <<typeMaps, saveVars, fetchVars, manyArray, savedMany,
                    relationshipChanges, registrations, ledgerCall, stores,
                    unloaded, returned>>

\* addRelationshipChangeFor(childRecord, childKey, parentRecord, parentKey,
\* change) on store s
OnStoreAddRelationshipChangeFor(s, childRecord, childKey, parentRecord, parentKey, type) ==
  /\ childRecord \in Live
  /\ parentRecord \in Live \cup {NoRecord}
  /\ cells' = [cells EXCEPT ![stores[s].relationshipChanges] =
                 addRelationshipChangeFor(@, childRecord, childKey, parentRecord,
                                          parentKey,
                                          [changeType |-> type, n |-> 1])]
  /\ calledStore' = s
  /\ lastCall' = Call("addRelationshipChangeFor", "", Null, 0, 0, "", FALSE,
                      FALSE)
  /\ UNCHANGED <<heap, typeMaps, saveVars, fetchVars, manyArray, savedMany,
                 relationshipChanges, registrations, ledgerCall, stores,
                 unloaded, returned>>

\* ------------------------------------------------------------ specification
\* the identity map under lookups, creation, ingestion and unloading
Next ==
  \/ \E type \in Types, id \in RawIds : CreateRecord(type, id)
  \/ \E type \in Types, id \in RawIds : GetById(type, id)
  \/ \E type \in Types, id \in DataIds : Push(type, id)
  \/ \E r \in Refs : DematerializeRecord(r)

Spec == Init /\ [][Next]_vars

\* the identity map under the adapter's acknowledgement of saved records
NextAck ==
  \/ \E id \in RawIds : CreateRecord("post", id)
  \/ \E id \in DataIds : Push("post", id)
  \/ \E r \in Refs : counts.scheduleSave < MaxAckedSaves /\ ScheduleSave(r)
  \/ FlushBegin
  \/ FlushDispatch
  \/ FlushEnd
  \/ \E r \in Refs, hasData \in BOOLEAN, id \in DataIds : DidSaveRecord(r, hasData, id)
  \/ \E r \in Refs, id \in DataIds : DidReceiveId(r, id)

SpecAck == Init /\ [][NextAck]_vars

\* single-record fetches and their completion
NextFetch ==
  \/ \E type \in Types, id \in RawIds : Find(type, id)
  \/ \E type \in Types, id \in RawIds : GetById(type, id)
  \/ \E f \in finds : AdapterFindSucceeds(f)
  \/ \E f \in finds : AdapterFindFails(f)
  \/ \E r \in Refs : DematerializeRecord(r)

SpecFetch == Init /\ [][NextFetch]_vars

\* the pending-save queue, its flush and the adapter's acknowledgements
NextSave ==
  \/ Len(heap) < MaxSavedRecords /\ CreateRecord("post", Null)
  \/ Len(heap) < MaxSavedRecords /\ Push("post", Str("1"))
  \/ \E r \in Refs : DeleteRecord(r)
  \/ \E r \in Refs : ScheduleSave(r)
  \/ FlushBegin
  \/ FlushDispatch
  \/ FlushEnd
  \/ \E r \in Refs : DidSaveRecord(r, FALSE, Null)

SpecSave == Init /\ [][NextSave]_vars

\* find-all requests and their acknowledgement
NextFindAll ==
  \/ \E type \in Types : FindAll(type)
  \/ \E type \in Types : DidUpdateAll(type)
  \/ \E type \in Types, id \in DataIds : Push(type, id)

SpecFindAll == Init /\ [][NextFindAll]_vars

\* the pending-save queue when the call of an adapter hook can throw
NextFlushFail ==
  \/ Len(heap) < MaxSavedRecords /\ CreateRecord("post", Null)
  \/ \E r \in Refs : ScheduleSave(r)
  \/ FlushBegin
  \/ FlushDispatch
  \/ FlushDispatchThrows
  \/ FlushEnd

SpecFlushFail == Init /\ [][NextFlushFail]_vars

\* batched fetches of records of several types
NextFetchMany ==
  \/ \E type \in Types, id \in DataIds \ {Null} : GetById(type, id)
  \/ \E records \in RecordLists : FetchMany(records)

SpecFetchMany == Init /\ [][NextFetchMany]_vars

\* two stores, the same operations called on either
NextStores ==
  \/ \E s \in StoreIds :
       OnStoreCreateRecord(s, "post", Null) /\ Len(heap') <= MaxStoreRecords
  \/ \E s \in StoreIds :
       OnStoreLoad(s, "post", Str("1")) /\ Len(heap') <= MaxStoreRecords
  \/ \E s \in StoreIds :
       OnStoreFind(s, "post", Str("1")) /\ Len(heap') <= MaxStoreRecords
  \/ \E s \in StoreIds, r \in Refs :
       /\ r \in Live /\ heap[r].stage = "loaded"
       /\ OnStoreDematerializeRecord(s, r)
  \/ \E s \in StoreIds, r \in Refs :
       /\ r \in Live /\ heap[r].isNew /\ ~heap[r].inFlight
       /\ OnStoreScheduleSave(s, r)
  \/ \E s \in StoreIds :
       OnStoreAddRelationshipChangeFor(s, 1, "a", NoRecord, "c", "add")

SpecStores == Init /\ [][NextStores]_vars

\* relationship changes registered, removed and listed
NextLedger ==
  \/ Len(heap) < MaxLedgerRecords /\ CreateRecord("post", Null)
  \/ \E child \in Refs, parent \in {NoRecord, 1}, type \in ChangeTypes :
       /\ Len(heap) = MaxLedgerRecords
       /\ AddRelationshipChangeFor(child, "a", parent, "c", type)
  \/ \E n \in 1..Len(registrations), child \in Refs, type \in ChangeTypes :
       RemoveRelationshipChangeFor(child, registrations[n].childKey,
                                   registrations[n].parent,
                                   registrations[n].parentKey, type)
  \/ \E record \in Refs \cup {NoRecord} : RelationshipChangePairsFor(record)

SpecLedger == Init /\ [][NextLedger]_vars

\* relationship changes registered and removed under every pair of relation
\* keys, the parent being null
NextLedgerKeys ==
  \/ Len(heap) < MaxLedgerRecords /\ CreateRecord("post", Null)
  \/ \E child \in Refs, childKey \in ChildKeys, parentKey \in ParentKeys :
       /\ Len(heap) = MaxLedgerRecords
       /\ AddRelationshipChangeFor(child, childKey, NoRecord, parentKey, "add")
  \/ \E child \in Refs, childKey \in ChildKeys, parentKey \in ParentKeys :
       /\ registrations # <<>>
       /\ RemoveRelationshipChangeFor(child, childKey, NoRecord, parentKey, "add")

SpecLedgerKeys == Init /\ [][NextLedgerKeys]_vars

\* the dataLists a didSaveRecords of n records is called with
DataLists(n) ==
  UNION {[1..m -> {NoData, Data(Str("1"))}] : m \in 0..n}

\* the adapter acknowledging the records of one flush, several in one call
NextSaveMany ==
  \/ \E id \in {Null, Str("")} :
       Len(heap) < MaxBulkSaves /\ CreateRecord("post", id)
  \/ \E r \in Refs :
       /\ Idle /\ dispatched = <<>>
       /\ counts.scheduleSave < MaxBulkSaves
       /\ ScheduleSave(r)
  \/ FlushBegin
  \/ FlushDispatch
  \/ FlushEnd
  \/ \E list \in RecordLists \ {<<>>}, hasDataList \in BOOLEAN :
       \E dataList \in IF hasDataList THEN DataLists(Len(list)) ELSE {<<>>} :
         Idle /\ DidSaveRecords(list, hasDataList, dataList)

SpecSaveMany == Init /\ [][NextSaveMany]_vars

\* many arrays over records that are empty, loading or loaded
NextFindMany ==
  \/ \E type \in Types : GetById(type, Str("1")) /\ Len(heap') <= MaxManyRecords
  \/ GetById("post", Str("")) /\ Len(heap') <= MaxManyRecords
  \/ Push("post", Str("1")) /\ Len(heap') <= MaxManyRecords
  \/ \E records \in RecordLists : FindMany(records)

SpecFindMany == Init /\ [][NextFindMany]_vars

\* the 'all' record array of a type, the type passed as a class or as a key
NextAll ==
  \/ \E type \in TypeRefs : All(type)
  \/ \E type \in TypeRefs : FindAll(type)
  \/ \E type \in Types : DidUpdateAll(type)

SpecAll == Init /\ [][NextAll]_vars

\* a record created without an id, saved, acknowledged with the backend's id
\* and then looked up by that id
NextEndToEnd ==
  \/ CreateRecord("post", Null)
  \/ \E r \in Refs : ScheduleSave(r)
  \/ FlushBegin
  \/ FlushDispatch
  \/ FlushEnd
  \/ \E r \in Refs : AcknowledgeCreated(r, Str("1"))
  \/ \E id \in RawIds : Find("post", id)
  \/ \E f \in finds : AdapterFindSucceeds(f)

SpecEndToEnd == Init /\ [][NextEndToEnd]_vars

\* the adapter acknowledging saved records with data that carries an id
NextConflict ==
  \/ \E id \in RawIds : Len(heap) < MaxSavedRecords /\ CreateRecord("post", id)
  \/ \E id \in DataIds : Len(heap) < MaxSavedRecords /\ Push("post", id)
  \/ \E r \in Refs : counts.scheduleSave < MaxAckedSaves /\ ScheduleSave(r)
  \/ FlushBegin
  \/ FlushDispatch
  \/ FlushEnd
  \/ \E r \in Refs, hasData \in BOOLEAN, id \in DataIds : DidSaveRecord(r, hasData, id)

SpecConflict == Init /\ [][NextConflict]_vars

\* lookups and creation with every kind of value passed as the id
NextIds ==
  \/ \E id \in JsIds : CreateRecord("post", id) /\ Len(heap') <= MaxIdRecords
  \/ \E id \in JsIds : GetById("post", id) /\ Len(heap') <= MaxIdRecords
  \/ \E id \in JsIds \ {Undefined} :
       Find("post", id) /\ Len(heap') <= MaxIdRecords

SpecIds == Init /\ [][NextIds]_vars


\* ------------------------------------------------------------------ claims
Lookups == {"getById", "find"}

\* the canonical identifier a record carries
IdOf(r) == coerceId(heap[r].id)

\* C1: no two distinct records in a type's ordered record list carry the same
\* non-null identifier.
C1_IdentityUniqueness ==
  \A type \in Types :
    LET records == typeMaps[type].records
    IN \A i, j \in 1..Len(records) :
         (records[i] # records[j] /\ IdOf(records[i]) # Null)
           => IdOf(records[i]) # IdOf(records[j])

\* C1, the same for identifiers that are truthy strings only: it fails as well,
\* through didSaveRecord giving a created record the id of a loaded record
C1_TruthyIdentityUniqueness ==
  \A type \in Types :
    LET records == typeMaps[type].records
    IN \A i, j \in 1..Len(records) :
         (records[i] # records[j] /\ Truthy(IdOf(records[i])))
           => IdOf(records[i]) # IdOf(records[j])

\* C2: a lookup of (type, id) returns the instance an earlier lookup of that
\* pair returned unless that instance was unloaded since, and it never returns
\* an instance that was unloaded.
C2_SameInstanceUntilUnload ==
  (lastCall.op \in Lookups /\ lastCall.ret # 0 /\ coerceId(lastCall.id) # Null)
    => /\ lastCall.ret \notin unloaded
       /\ \A r \in returned \ {lastCall.ret} :
            ~(/\ r \notin unloaded
              /\ heap[r].type = lastCall.type
              /\ IdOf(r) = coerceId(lastCall.id))

\* the adapter finds that were under way for the pair the last find asked for,
\* for a record still in the store
EarlierFetches ==
  {f \in finds : /\ f.resolver # lastCall.promise
                 /\ f.type = lastCall.type
                 /\ coerceId(f.id) = coerceId(lastCall.id)
                 /\ f.record \notin unloaded}

\* C3: a findById for a pair whose fetch is still under way makes no second
\* adapter find, and both callers get the same record.
C3_OneFetchPerId ==
  (lastCall.op = "find" /\ coerceId(lastCall.id) # Null)
    => \A f \in EarlierFetches : ~lastCall.issued /\ f.record = lastCall.ret

\* C4: a findById for a pair whose fetch is still under way returns the pending
\* future of that fetch, which is not resolved before the fetch completes.
C4_SamePendingFuture ==
  (lastCall.op = "find" /\ coerceId(lastCall.id) # Null)
    => \A f \in EarlierFetches :
         /\ lastCall.promise = f.resolver
         /\ promises[lastCall.promise].state = "pending"

\* C5: a record is queued at most once between two flushes, and a flush
\* invokes the commit hook of a record at most once.
C5_QueuedOnce ==
  /\ \A i, j \in 1..Len(pendingSave) :
       pendingSave[i].record = pendingSave[j].record => i = j
  /\ \A i, j \in 1..Len(dispatched) :
       (dispatched[i].record = dispatched[j].record
          /\ dispatched[i].flush = dispatched[j].flush) => i = j

\* the tuples of the queue no flush has handed to the adapter yet
Undispatched ==
  Len(pendingSave) - (IF flushPos = 0 THEN 0 ELSE flushPos - 1)

\* C6: every scheduleSave call is matched by exactly one adapter dispatch or is
\* still waiting in the queue: nothing is dispatched twice, nothing is lost.
C6_NoEntryLost ==
  counts.scheduleSave = Len(dispatched) + Undispatched

HookFor(isNew, isDeleted) ==
  IF isNew THEN "createRecord"
  ELSE IF isDeleted THEN "deleteRecord"
  ELSE "updateRecord"

\* C8 as stated: the hook a tuple is dispatched to is the one for the record's
\* state when scheduleSave was called.
C8_HookByStateAtSchedule ==
  \A i \in 1..Len(dispatched) :
    dispatched[i].hook =
      HookFor(dispatched[i].newAtSchedule, dispatched[i].deletedAtSchedule)

\* C8 as stated, for the tuples of records that were queued once in their
\* flush: it fails as well, when a record is saved again while its creation is
\* in flight and the acknowledgement arrives before the next flush
C8_HookByStateAtScheduleQueuedOnce ==
  \A i \in 1..Len(dispatched) :
    (\A j \in 1..Len(dispatched) :
       (dispatched[j].record = dispatched[i].record
          /\ dispatched[j].flush = dispatched[i].flush) => j = i)
      => dispatched[i].hook =
           HookFor(dispatched[i].newAtSchedule, dispatched[i].deletedAtSchedule)

\* C8 as amended: the hook a tuple is dispatched to is the one for the record's
\* state when the flush reaches the tuple: createRecord when isNew, else
\* deleteRecord when isDeleted, else updateRecord.
C8_HookByStateAtFlush ==
  \A i \in 1..Len(dispatched) :
    dispatched[i].hook = HookFor(dispatched[i].isNew, dispatched[i].isDeleted)

\* C8 witness: a tuple was dispatched as an update for a record that was new
\* when it was scheduled
C8_Witness ==
  \E i \in 1..Len(dispatched) :
    /\ dispatched[i].newAtSchedule # dispatched[i].isNew
    /\ dispatched[i].hook = "updateRecord"

\* C9 as stated: a findAll made while the type's previous find-all is still
\* outstanding issues no adapter findAll.
C9_NoSecondFindAll ==
  (lastCall.op = "findAll" /\ lastCall.pre) => ~lastCall.issued

\* C9 as amended: every findAll issues an adapter findAll and leaves the
\* type's cached array updating, also while a previous one is outstanding.
C9_FindAllAlwaysFetches ==
  lastCall.op = "findAll"
    => /\ lastCall.issued
       /\ typeMaps[lastCall.type].findAllCache # 0
       /\ typeMaps[lastCall.type].isUpdating
       /\ findAlls[lastCall.type] >= 1

\* C9 witness: a findAll made while one was outstanding issued a second request
C9_Witness ==
  /\ lastCall.op = "findAll"
  /\ lastCall.pre
  /\ lastCall.issued
  /\ findAlls[lastCall.type] = 2

\* C10: didReceiveId throws exactly when the record carries another non-null
\* id, and when it does not throw the id is indexed to the record.
C10_DidReceiveId ==
  lastCall.op = "didReceiveId"
    => /\ (lastCall.threw # "") <=> lastCall.pre
       /\ lastCall.threw = ""
            => typeMaps[lastCall.type].idToRecord[PropKey(lastCall.id)]
                 = lastCall.ret

\* C11: once the adapter has acknowledged a record created without an id with
\* didReceiveId(record, id) and didSaveRecord(record, {id: id}), findById for
\* that id is a cache hit: it issues no adapter find and resolves to the
\* created record.
C11_EndToEnd ==
  (lastCall.op = "acknowledgeCreated" /\ lastCall.pre)
    => LET got == getById(Store, lastCall.type, coerceId(lastCall.id))
       IN /\ lastCall.threw = ""
          /\ got.ret = lastCall.ret
          /\ got.heap = heap
          /\ heap[lastCall.ret].stage # "empty"

\* C12: didSaveRecord with data whose id differs from the non-null id the
\* record already carries fails, and the failed call leaves the id index, the
\* record's id and every other record as they were.
C12_IdentityConflict ==
  [][\A r \in Refs, dataId \in DataIds :
       (/\ DidSaveRecord(r, TRUE, dataId)
        /\ ~isNone(heap[r].id)
        /\ ~isNone(dataId)
        /\ coerceId(dataId) # coerceId(heap[r].id))
         => /\ lastCall'.threw = "AssertionError"
            /\ typeMaps' = typeMaps
            /\ heap' = heap]_vars

\* C12 witness: didSaveRecord has failed for a record that carries a non-null
\* id, on data with another non-null id
C12_Witness ==
  /\ lastCall.op = "didSaveRecord"
  /\ lastCall.pre
  /\ lastCall.threw = "AssertionError"
  /\ ~isNone(heap[lastCall.ret].id)
  /\ ~isNone(lastCall.id)
  /\ coerceId(lastCall.id) # coerceId(heap[lastCall.ret].id)
  /\ typeMaps[lastCall.type].idToRecord[PropKey(heap[lastCall.ret].id)]
       = lastCall.ret

\* the records of the type's list, other than r, that carry the id
SameId(type, id, r) ==
  {q \in Live \ {r} :
     /\ \E i \in 1..Len(typeMaps[type].records) : typeMaps[type].records[i] = q
     /\ ~isNone(heap[q].id)
     /\ IdOf(q) = coerceId(id)}

\* C13: a record whose id is defined, falsy values such as 0 and '' included,
\* is indexed under its id; lookups of an id return one instance, and
\* createRecord with an id a record of the type already carries is rejected.
C13_FalsyIdsIndexed ==
  /\ \A type \in Types : \A i \in 1..Len(typeMaps[type].records) :
       LET r == typeMaps[type].records[i]
       IN ~isNone(heap[r].id)
            => typeMaps[type].idToRecord[PropKey(heap[r].id)] = r
  /\ (lastCall.op \in Lookups /\ ~isNone(lastCall.id))
       => SameId(lastCall.type, lastCall.id, lastCall.ret) = {}
  /\ (lastCall.op = "createRecord" /\ ~isNone(lastCall.id)
        /\ SameId(lastCall.type, lastCall.id, lastCall.ret) # {})
       => lastCall.threw # ""

\* C13, as long as no record carries a falsy id that is defined: it holds
C13_TruthyIdsIndexed ==
  (\A r \in Live : isNone(heap[r].id) \/ Truthy(heap[r].id))
    => C13_FalsyIdsIndexed

\* C14: coerceId maps null and undefined to null and every other value to its
\* string form, so that 1 and "1" coerce to the same id and 0 does not coerce
\* to null; coercing twice is coercing once.  The record a lookup returns
\* carries the coerced form of the id that was asked for.
C14_CoerceId ==
  (lastCall.op \in Lookups /\ lastCall.ret # 0)
    => LET x == lastCall.id
           c == coerceId(x)
       IN /\ isNone(x) => c = Null
          /\ ~isNone(x) => (c.k = "string" /\ c.s = PropKey(x) /\ c # Null)
          /\ coerceId(c) = c
          /\ \A y \in JsIds :
               (~isNone(y) /\ PropKey(y) = PropKey(x)) => coerceId(y) = c
          /\ coerceId(Null) = Null /\ coerceId(Undefined) = Null
          /\ IdOf(lastCall.ret) = c

\* C14 witness: find was given the number 0 and returned a record whose id is
\* the string "0"
C14_Witness ==
  /\ lastCall.op = "find"
  /\ lastCall.id = Num("0")
  /\ lastCall.ret # 0
  /\ heap[lastCall.ret].id = Str("0")

\* the records of the type's list that carry the id
RecordsWithId(type, id) ==
  {r \in Live :
     /\ \E i \in 1..Len(typeMaps[type].records) : typeMaps[type].records[i] = r
     /\ ~isNone(heap[r].id)
     /\ IdOf(r) = coerceId(id)}

\* what C15 says of one findById(type, id) step
FindByIdHitsOrFetches(type, id) ==
  LET nonEmpty == {r \in RecordsWithId(type, id) : heap[r].stage # "empty"}
  IN IF nonEmpty # {}
     THEN /\ ~lastCall'.issued
          /\ lastCall'.ret \in nonEmpty
          /\ promises'[lastCall'.promise] =
               [state |-> "fulfilled", value |-> lastCall'.ret]
          /\ finds' = finds
     ELSE /\ lastCall'.issued
          /\ heap'[lastCall'.ret].stage = "loading"
          /\ Cardinality(finds' \ finds) = 1

\* C15: findById for an id whose record exists and is not empty resolves at
\* once with that record and calls no adapter find; for an id whose record is
\* absent or empty it makes the record loading and calls adapter find once.
C15_FindByIdCacheHit ==
  [][\A type \in Types, id \in RawIds :
       (Find(type, id) /\ ~isNone(id)) => FindByIdHitsOrFetches(type, id)]_vars

\* C15 for truthy ids while no record has been unloaded: it holds
C15_FindByIdCacheHitTruthy ==
  [][\A type \in Types, id \in RawIds :
       (Find(type, id) /\ Truthy(id) /\ unloaded = {})
         => FindByIdHitsOrFetches(type, id)]_vars

\* C15 for truthy ids: it fails as well, once a record has been unloaded twice
C15_FindByIdCacheHitUnloaded ==
  [][\A type \in Types, id \in RawIds :
       (Find(type, id) /\ Truthy(id)) => FindByIdHitsOrFetches(type, id)]_vars

\* the 'all' record arrays that exist for a model class, whichever way the
\* class was named
AllArrays(type) ==
  {typeMaps[ref].findAllCache : ref \in {x \in TypeRefs : modelFor(x) = type}}
    \ {0}

\* C16: a type has one 'all' record array for the life of the store: every
\* all(type), and the array every findAll(type) uses, is that array, and it
\* was registered with the record array manager once.
C16_OneAllCollection ==
  /\ \A type \in Types : Cardinality(AllArrays(type)) <= 1
  /\ counts.arrays = Cardinality({type \in Types : AllArrays(type) # {}})
  /\ \A ref \in TypeRefs :
       counts.registered[ref] = (IF typeMaps[ref].findAllCache # 0 THEN 1 ELSE 0)
  /\ lastCall.op \in {"all", "findAll"}
       => (lastCall.ret # 0 /\ AllArrays(modelFor(lastCall.type)) = {lastCall.ret})

\* C16 while every caller passes the model class itself: it holds
C16_OneAllCollectionPerClass ==
  (\A key \in TypeKeys : typeMaps[key].findAllCache = 0)
    => C16_OneAllCollection

\* what C17 says of one dematerializeRecord(r) step
DematerializedInOrder(r) ==
  LET type == heap[r].type
      id == heap[r].id
      records == typeMaps[type].records
      steps == dematerializeSteps(heap[r])
  IN /\ \A i, j \in 1..Len(steps) :
          (steps[i] = "updateRecordArrays" /\ steps[j] = "delete idToRecord[id]")
            => i < j
     /\ \E i \in 1..Len(steps) : steps[i] = "updateRecordArrays"
     /\ ~isNone(id) => typeMaps'[type].idToRecord[PropKey(id)] = 0
     /\ typeMaps'[type].records = SelectSeq(records, LAMBDA q : q # r)
     /\ \A other \in Types \ {type} : typeMaps'[other] = typeMaps[other]

\* C17: dematerializeRecord takes the record out of its record arrays before
\* it frees the id slot; afterwards the slot of the record's id is free and
\* the type's record list is the list as it was without the record's entry.
C17_Dematerialize ==
  [][\A r \in Refs : DematerializeRecord(r) => DematerializedInOrder(r)]_vars

\* C17 for a record that is in its type's record list: it holds
C17_DematerializeListed ==
  [][\A r \in Refs :
       (/\ DematerializeRecord(r)
        /\ \E i \in 1..Len(typeMaps[heap[r].type].records) :
             typeMaps[heap[r].type].records[i] = r)
         => DematerializedInOrder(r)]_vars

\* C18: when a record was unloaded while its fetch was under way, the data
\* the fetch brings is ignored: ingesting it leaves the type maps as they
\* were and does not touch the unloaded record.
C18_UnloadedDataIgnored ==
  [][\A f \in finds :
       (AdapterFindSucceeds(f) /\ f.record \in unloaded)
         => /\ typeMaps' = typeMaps
            /\ heap'[f.record] = heap[f.record]]_vars

\* C18, the half that holds: the data never reaches the unloaded record
C18_UnloadedNotResurrected ==
  [][\A f \in finds :
       (AdapterFindSucceeds(f) /\ f.record \in unloaded)
         => /\ heap'[f.record] = heap[f.record]
            /\ \A type \in Types :
                 \A i \in 1..Len(typeMaps'[type].records) :
                   typeMaps'[type].records[i] = f.record
                     => \E j \in 1..Len(typeMaps[type].records) :
                          typeMaps[type].records[j] = f.record]_vars

\* C19: when the adapter hook of one queued record fails during a flush, the
\* other records queued with it are still handed to the adapter, once each,
\* and the queue is emptied.
C19_SiblingsDispatched ==
  (lastCall.op = "flushPendingSave" /\ lastCall.threw # "")
    => /\ pendingSave = <<>>
       /\ Cardinality({i \in 1..Len(dispatched) :
                         dispatched[i].flush = counts.flush}) = flushLen - 1

\* C19, the dispatch of the siblings alone: it fails as well
C19_SiblingsDispatchedQueueAside ==
  (lastCall.op = "flushPendingSave" /\ lastCall.threw # "")
    => Cardinality({i \in 1..Len(dispatched) :
                      dispatched[i].flush = counts.flush}) = flushLen - 1

\* C20: fetchMany makes one adapter findMany call for each type that occurs
\* among the records it is given, with the ids of the records of that type in
\* the order they were given, and no adapter call for an empty list.
C20_FetchMany ==
  lastCall.op = "fetchMany"
    => LET records == findManys.records
           calls == findManys.calls
       IN /\ records = <<>> => calls = <<>>
          /\ \A type \in Types :
               Cardinality({i \in 1..Len(calls) : calls[i].type = type})
                 = (IF \E k \in 1..Len(records) : heap[records[k]].type = type
                    THEN 1 ELSE 0)
          /\ \A i \in 1..Len(calls) :
               LET ofType == SelectSeq(records,
                                       LAMBDA r : heap[r].type = calls[i].type)
               IN /\ Len(calls[i].ids) = Len(ofType)
                  /\ \A k \in 1..Len(ofType) :
                       calls[i].ids[k] = heap[ofType[k]].id

\* C20 witness: fetchMany was given records of two types, the types
\* interleaved, and made two adapter calls, one of them with two ids
C20_Witness ==
  /\ lastCall.op = "fetchMany"
  /\ Len(findManys.records) = 3
  /\ heap[findManys.records[1]].type = heap[findManys.records[3]].type
  /\ heap[findManys.records[1]].type # heap[findManys.records[2]].type
  /\ findManys.records[1] # findManys.records[3]
  /\ heap[findManys.records[1]].id # heap[findManys.records[3]].id
  /\ Len(findManys.calls) = 2
  /\ Len(findManys.calls[1].ids) = 2

\* the positions of a findMany's records that were empty when it was called
EmptyMembers(records) == {i \in 1..Len(records) : heap[records[i]].stage = "empty"}

\* C21: findMany makes its empty records loading and sends exactly those to
\* the adapter, leaves the others alone, sets the many array's outstanding
\* count to the number of empty records, and when that is zero marks the array
\* loaded and schedules its load notification once, without a fetch.
C21_FindMany ==
  [][lastCall'.op = "findMany"
       => LET records == manyArray'.content
              empty == EmptyMembers(records)
          IN /\ \A r \in Live :
                  heap'[r] = IF \E i \in empty : records[i] = r
                             THEN [heap[r] EXCEPT !.stage = "loading"]
                             ELSE heap[r]
             /\ manyArray'.loadingRecordsCount = Cardinality(empty)
             /\ lastCall'.issued <=> empty # {}
             /\ IF empty # {}
                THEN /\ findManys'.records =
                          SelectSeq(records, LAMBDA r : heap[r].stage = "empty")
                     /\ \A c \in 1..Len(findManys'.calls) :
                          \A k \in 1..Len(findManys'.calls[c].ids) :
                            \E i \in empty :
                              /\ heap[records[i]].id = findManys'.calls[c].ids[k]
                              /\ heap[records[i]].type = findManys'.calls[c].type
                     /\ ~manyArray'.isLoaded
                     /\ manyArray'.didLoad = 0
                ELSE /\ findManys' = findManys
                     /\ manyArray'.isLoaded
                     /\ manyArray'.didLoad = 1]_vars

\* C21 witness: findMany was given a loaded record and an empty one, made the
\* empty one loading and sent it, and it only, to the adapter
C21_Witness ==
  /\ lastCall.op = "findMany"
  /\ lastCall.issued
  /\ Len(manyArray.content) = 2
  /\ manyArray.loadingRecordsCount = 1
  /\ Len(findManys.records) = 1
  /\ heap[findManys.records[1]].stage = "loading"
  /\ \E i \in 1..2 : heap[manyArray.content[i]].stage = "loaded"
  /\ ~manyArray.isLoaded

\* C21 witness, the other case: findMany was given records none of which was
\* empty and marked the many array loaded
C21_WitnessLoaded ==
  /\ lastCall.op = "findMany"
  /\ ~lastCall.issued
  /\ Len(manyArray.content) >= 1
  /\ manyArray.isLoaded
  /\ manyArray.didLoad = 1

\* the data the k-th record of the last didSaveRecords is paired with
PairedData(k) ==
  IF savedMany'.hasDataList /\ k <= Len(savedMany'.dataList)
  THEN savedMany'.dataList[k] ELSE NoData

\* didSaveRecord(list[k], dataList[k]) called for k, k + 1, ... in that order
\* on the store st, acks being the records acknowledged so far
RECURSIVE OncePerRecord(_, _, _)
OncePerRecord(st, acks, k) ==
  IF k > Len(savedMany'.list) \/ st.threw # "" THEN [st EXCEPT !.ret = acks]
  ELSE LET got == didSaveRecord(st, savedMany'.list[k], PairedData(k).data,
                                PairedData(k).id)
       IN OncePerRecord(got, IF got.threw = "" THEN Append(acks, savedMany'.list[k])
                                               ELSE acks, k + 1)

\* C22: didSaveRecords(records, dataList) leaves the id index and the records
\* as calling didSaveRecord(records[k], dataList[k]) once per record in list
\* order does (with no data when there is no dataList), and acknowledges the
\* same records in the same order.
C22_DidSaveRecords ==
  [][lastCall'.op = "didSaveRecords"
       => LET each == OncePerRecord(Result(heap, typeMaps, <<>>, ""), <<>>, 1)
          IN /\ heap' = each.heap
             /\ typeMaps' = each.typeMaps
             /\ savedMany'.acks = each.ret
             /\ lastCall'.threw = each.threw]_vars

\* C22 witness: two records were acknowledged in one call, the first with
\* data that gave it its id, the second with no data
C22_Witness ==
  /\ lastCall.op = "didSaveRecords"
  /\ lastCall.threw = ""
  /\ Len(savedMany.list) = 2
  /\ savedMany.acks = savedMany.list
  /\ savedMany.hasDataList
  /\ Len(savedMany.dataList) = 2
  /\ savedMany.dataList[1] = Data(Str("1"))
  /\ savedMany.dataList[2] # savedMany.dataList[1]
  /\ heap[savedMany.list[1]].id = Str("1")
  /\ ~heap[savedMany.list[1]].inFlight
  /\ ~heap[savedMany.list[2]].inFlight

\* the change objects held anywhere in the relationship changes
StoredChanges(changes) ==
  UNION {UNION {UNION {{changes[c][p][k][t] : t \in DOMAIN changes[c][p][k]} :
                          k \in DOMAIN changes[c][p]} :
                   p \in DOMAIN changes[c]} :
           c \in DOMAIN changes}

\* the key a change was registered under: (child, parent or null, the pair of
\* relation keys, change kind)
KeyTuple(child, parent, childKey, parentKey, type) ==
  [child |-> child, parent |-> parent, childKey |-> childKey,
   parentKey |-> parentKey, type |-> type]

\* the live entries of a key: the change objects held that were registered
\* under it
LiveFor(changes, tuple) ==
  {change \in StoredChanges(changes) : registrations[change.n] = tuple}

\* the key the last call on the relationship changes was given
CalledKey ==
  KeyTuple(ledgerCall.child, ledgerCall.parent, ledgerCall.childKey,
           ledgerCall.parentKey, ledgerCall.type)

\* C23: after removeRelationshipChangeFor with a key, no live entry is left
\* for that key, whether the parent is null or a record.
C23_AddThenRemove ==
  lastCall.op = "removeRelationshipChangeFor"
    => LiveFor(relationshipChanges, CalledKey) = {}

\* C23, the null parent alone
C23_AddThenRemoveNullParent ==
  (lastCall.op = "removeRelationshipChangeFor" /\ ledgerCall.parent = NoRecord)
    => LiveFor(relationshipChanges, CalledKey) = {}

\* C23, second half: removing a key that has no live entry changes nothing
C23_RemoveAbsent ==
  [][(/\ lastCall'.op = "removeRelationshipChangeFor"
      /\ LiveFor(relationshipChanges,
                 KeyTuple(ledgerCall'.child, ledgerCall'.parent,
                          ledgerCall'.childKey, ledgerCall'.parentKey,
                          ledgerCall'.type)) = {})
       => relationshipChanges' = relationshipChanges]_vars

\* the change objects held that were registered with a record as the child
ChangesOfChild(record) ==
  {change \in StoredChanges(relationshipChanges) :
     registrations[change.n].child = record}

\* C24: relationshipChangePairsFor(record) returns exactly the change objects
\* held for the record as the child, each once, and no containers of them.
C24_ChangesFor ==
  lastCall.op = "relationshipChangePairsFor"
    => LET ret == ledgerCall.returned
       IN /\ {ret[i].pushed : i \in 1..Len(ret)} = ChangesOfChild(ledgerCall.child)
          /\ Len(ret) = Cardinality(ChangesOfChild(ledgerCall.child))

\* C24, what holds instead: every element returned is the container of one
\* relation key under one parent, mapping change kinds to change objects, and
\* the change objects in the containers returned are those held for the child
C24_ContainersFor ==
  lastCall.op = "relationshipChangePairsFor"
    => LET ret == ledgerCall.returned
       IN /\ \A i \in 1..Len(ret) :
               /\ DOMAIN ret[i].pushed \subseteq ChangeTypes
               /\ \A j \in 1..Len(ret) :
                    (ret[i].objKey = ret[j].objKey
                       /\ ret[i].changeKey = ret[j].changeKey) => i = j
          /\ UNION {{ret[i].pushed[t] : t \in DOMAIN ret[i].pushed} :
                      i \in 1..Len(ret)} = ChangesOfChild(ledgerCall.child)

\* C25: the relationship changes hold at most one change object per key
\* (child, parent, relation key pair, change kind), and after a registration
\* the one held for its key is the change object just registered.
C25_OneEntryPerKey ==
  /\ \A n \in 1..Len(registrations) :
       Cardinality(LiveFor(relationshipChanges, registrations[n])) <= 1
  /\ lastCall.op = "addRelationshipChangeFor"
       => LiveFor(relationshipChanges, registrations[Len(registrations)]) =
            {[changeType |-> ledgerCall.type, n |-> Len(registrations)]}

\* C25 witness: a change was registered under the key of an earlier change,
\* with a record as the parent, and is the one held
C25_Witness ==
  /\ lastCall.op = "addRelationshipChangeFor"
  /\ Len(registrations) = 2
  /\ registrations[1] = registrations[2]
  /\ registrations[2].parent # NoRecord
  /\ StoredChanges(relationshipChanges) =
       {[changeType |-> ledgerCall.type, n |-> 2]}

\* C26: getById makes no adapter fetch, and when the store has no record for
\* (type, id) it returns undefined and leaves the records and the type maps as
\* they were.
C26_GetByIdAbsent ==
  [][lastCall'.op = "getById"
       => /\ UNCHANGED fetchVars
          /\ ~hasRecordForId(Store, lastCall'.type, lastCall'.id)
               => /\ lastCall'.ret = 0
                  /\ heap' = heap
                  /\ typeMaps' = typeMaps]_vars

\* C26, the first half alone: getById makes no adapter fetch
C26_GetByIdNoFetch ==
  [][lastCall'.op = "getById" => UNCHANGED fetchVars]_vars

\* C26, what holds instead: with no record for (type, id), getById returns a
\* new empty record that it put on the type's list
C26_GetByIdBuilds ==
  [][(/\ lastCall'.op = "getById"
      /\ lastCall'.threw = ""
      /\ ~hasRecordForId(Store, lastCall'.type, lastCall'.id))
       => /\ lastCall'.ret = Len(heap) + 1
          /\ Len(heap') = Len(heap) + 1
          /\ heap'[lastCall'.ret].stage = "empty"
          /\ typeMaps'[modelFor(lastCall'.type)].records =
               Append(typeMaps[modelFor(lastCall'.type)].records, lastCall'.ret)]_vars

\* C27: an operation called on one store leaves the type maps, the pending
\* saves and the relationship changes of every other store as they were.
C27_StoresIndependent ==
  [][\A s \in StoreIds :
       calledStore' # s
         => StoreState(stores', cells', s) = StoreState(stores, cells, s)]_vars

\* C27 witness: the second store holds a record for the id '1' and the first
\* none, and the first has a record of its own, a pending save and a
\* relationship change while the second has neither
C27_Witness ==
  LET one == StoreState(stores, cells, 1)
      two == StoreState(stores, cells, 2)
  IN /\ one.typeMaps["post"].idToRecord["1"] = 0
     /\ two.typeMaps["post"].idToRecord["1"] # 0
     /\ Len(one.typeMaps["post"].records) = 1
     /\ Len(two.typeMaps["post"].records) = 1
     /\ one.typeMaps["post"].records # two.typeMaps["post"].records
     /\ Len(one.pendingSave) = 1
     /\ two.pendingSave = <<>>
     /\ one.relationshipChanges # EmptyObject
     /\ two.relationshipChanges = EmptyObject

\* C28: every key of a type's idToRecord is the id, a string, of the record it
\* maps to, and every record on the type's list that has an id is the record
\* idToRecord holds for that id; so a record without an id is never indexed.
C28_IndexSound ==
  \A type \in Types :
    LET typeMap == typeMaps[type]
    IN /\ \A k \in DOMAIN typeMap.idToRecord :
            typeMap.idToRecord[k] # 0
              => heap[typeMap.idToRecord[k]].id = Str(k)
       /\ \A i \in 1..Len(typeMap.records) :
            ~isNone(heap[typeMap.records[i]].id)
              => typeMap.idToRecord[PropKey(heap[typeMap.records[i]].id)] =
                   typeMap.records[i]

\* C28, the case the claim names: after didSaveRecord with data that carries
\* no id, the record, which has no id, is not indexed
C28_NoIdNotIndexed ==
  (lastCall.op = "didSaveRecord" /\ lastCall.pre /\ lastCall.threw = ""
     /\ isNone(lastCall.id))
    => \A k \in DOMAIN typeMaps[lastCall.type].idToRecord :
         typeMaps[lastCall.type].idToRecord[k] # lastCall.ret

\* C29: dematerializeRecord(record) takes no record other than its argument
\* off the type's list, which it leaves unchanged when the record is not on
\* it, and frees no id slot that maps to another record.
C29_DematerializeOnlyArgument ==
  [][lastCall'.op = "dematerializeRecord"
       => LET r == lastCall'.ret
              type == heap[r].type
          IN /\ typeMaps'[type].records =
                  SelectSeq(typeMaps[type].records, LAMBDA q : q # r)
             /\ \A k \in DOMAIN typeMaps[type].idToRecord :
                  typeMaps[type].idToRecord[k] # r
                    => typeMaps'[type].idToRecord[k] = typeMaps[type].idToRecord[k]]_vars

\* C29, the list alone
C29_ListKeepsOthers ==
  [][lastCall'.op = "dematerializeRecord"
       => typeMaps'[heap[lastCall'.ret].type].records =
            SelectSeq(typeMaps[heap[lastCall'.ret].type].records,
                      LAMBDA q : q # lastCall'.ret)]_vars

\* C29, the id slots alone
C29_SlotsKeepOthers ==
  [][lastCall'.op = "dematerializeRecord"
       => \A k \in DOMAIN typeMaps[heap[lastCall'.ret].type].idToRecord :
            typeMaps[heap[lastCall'.ret].type].idToRecord[k] # lastCall'.ret
              => typeMaps'[heap[lastCall'.ret].type].idToRecord[k] =
                   typeMaps[heap[lastCall'.ret].type].idToRecord[k]]_vars

\* C30: push(type, data) returns the record load put the data into and adds at
\* most one record to the type's list, whatever the id of the data, null
\* included.
C30_PushReturnsLoaded ==
  [][lastCall'.op = "push"
       => /\ lastCall'.ret = load(Store, lastCall'.type, lastCall'.id).ret
          /\ heap'[lastCall'.ret].stage = "loaded"
          /\ Len(typeMaps'[lastCall'.type].records)
               <= Len(typeMaps[lastCall'.type].records) + 1]_vars

\* C30 for data whose id is truthy: it holds
C30_PushReturnsLoadedTruthy ==
  [][(lastCall'.op = "push" /\ Truthy(lastCall'.id))
       => /\ lastCall'.ret = load(Store, lastCall'.type, lastCall'.id).ret
          /\ heap'[lastCall'.ret].stage = "loaded"
          /\ Len(typeMaps'[lastCall'.type].records)
               <= Len(typeMaps[lastCall'.type].records) + 1]_vars

\* the change objects held in changes that were registered under a key,
\* regs being the registrations made
LiveIn(changes, regs, tuple) ==
  {change \in StoredChanges(changes) : regs[change.n] = tuple}

\* the key the step's call on the relationship changes was given
NextCalledKey ==
  KeyTuple(ledgerCall'.child, ledgerCall'.parent, ledgerCall'.childKey,
           ledgerCall'.parentKey, ledgerCall'.type)

\* C31: addRelationshipChangeFor and removeRelationshipChangeFor with one key
\* (child, parent, childKey, parentKey, change kind) leave what is held for
\* every other key as it was, two keys that differ only in how childKey and
\* parentKey split the same string included.
C31_OtherKeysUntouched ==
  [][lastCall'.op \in {"addRelationshipChangeFor", "removeRelationshipChangeFor"}
       => \A n \in 1..Len(registrations) :
            registrations[n] # NextCalledKey
              => LiveIn(relationshipChanges', registrations', registrations[n]) =
                   LiveIn(relationshipChanges, registrations, registrations[n])]_vars

\* C31 for keys that differ in the child, the parent, the change kind or the
\* string childKey + parentKey: it holds
C31_OtherSlotsUntouched ==
  [][lastCall'.op \in {"addRelationshipChangeFor", "removeRelationshipChangeFor"}
       => \A n \in 1..Len(registrations) :
            (\/ registrations[n].child # NextCalledKey.child
             \/ registrations[n].parent # NextCalledKey.parent
             \/ registrations[n].type # NextCalledKey.type
             \/ registrations[n].childKey \o registrations[n].parentKey #
                  NextCalledKey.childKey \o NextCalledKey.parentKey)
              => LiveIn(relationshipChanges', registrations', registrations[n]) =
                   LiveIn(relationshipChanges, registrations, registrations[n])]_vars

====
